---- MODULE Spec2Model ----
(***************************************************************************)
(* Index lifecycle and query serving of the helpdesk chatbot:              *)
(*   app/vector_store.py   VectorStore  (load, create, persist, query)     *)
(*   app/chatbot.py        Chatbot      (get_response, refresh_knowledge)  *)
(*   etl/schedule_etl.py   ETLScheduler (run_etl_job, run_now, scheduler)  *)
(*   monitor/alerts.py     AlertManager (send_alert, send_error_alert)     *)
(*                                                                         *)
(* A snapshot is identified by its generation number; 0 stands for None.   *)
(* Every thread of the program is a worker (a thread that constructs and   *)
(* rebuilds) or a query thread (a request running Chatbot.get_response).   *)
(***************************************************************************)
EXTENDS Integers, Sequences, FiniteSets, TLC

\* ---------------------------------------------------------------- bounds
\* Generations a run may build (snapshot 1 is the one found on disk at start).
MaxGen == 3
\* Files in PDF_PROCESSED_DIR.
MaxDocs == 1
\* Passages one retrieval reads from its query engine.
MaxPassages == 2
\* Longest conversation history handed to get_response.
MaxHist == 6
\* Longest query text.
MaxQueryLen == 1

\* ------------------------------------------------------- program constants
\* conversation_history[-5:]
HistoryWindow == 5
\* The files StorageContext.persist writes into VECTOR_STORE_DIR, one by one.
NFiles == 2

UnavailableMsg == "Sorry, the document index is not available right now."
QueryErrorMsg == "Error processing query: "
FallbackMsg == "I'm sorry, I encountered an error processing your request."
RefreshedMsg == "Index refreshed successfully"

\* ------------------------------------------------------------------ state
\* The two VectorStore objects of the program: Chatbot.__init__ and
\* ETLScheduler.__init__ each construct their own.
Stores == {"chatbot", "etl"}

\* chat:  the thread that constructs the Chatbot and serves refresh_knowledge
\* main:  the thread that constructs the ETLScheduler and calls run_now
\* sched: the background thread running start_scheduler
Workers == {"chat", "main", "sched"}
EtlWorkers == {"main", "sched"}

StoreOf(w) == IF w = "chat" THEN "chatbot" ELSE "etl"

QueryThreads == {1, 2}

Gens == 0..(MaxGen + 1)

VARIABLES
    index,      \* index[s]: VectorStore.index of store s (0 = None)
    ready,      \* ready[s]: the constructor of store s has returned
    disk,       \* disk[i]: generation held by file i of VECTOR_STORE_DIR (0 = absent)
    docs,       \* number of files in PDF_PROCESSED_DIR
    nextGen,    \* identity of the next snapshot VectorStoreIndex.from_documents builds
    wk,         \* wk[w]: position and locals of worker w
    qt,         \* qt[t]: position and locals of query thread t
    stopEvent,  \* ETLScheduler.stop_event
    lastEtlGen, \* the snapshot built by the latest run_etl_job that returned True
    scheduler   \* ETL_SCHEDULE_HOUR, the hour argument, self.hour and the daily job

vars == <<index, ready, disk, docs, nextGen, wk, qt, stopEvent, lastEtlGen, scheduler>>

\* ------------------------------------------------------------ the storage
\* os.path.exists(VECTOR_STORE_DIR) and os.listdir(VECTOR_STORE_DIR)
DirNonEmpty(d) == \E i \in 1..NFiles : d[i] # 0

\* load_index_from_storage succeeds only on a directory one persist wrote whole.
DiskComplete(d) == d[1] # 0 /\ \A i \in 1..NFiles : d[i] = d[1]

\* not os.path.exists(PDF_PROCESSED_DIR) or not os.listdir(PDF_PROCESSED_DIR)
NoDocuments(n) == n = 0

\* ---------------------------------------------------------------- workers
NewWorker ==
    [pc |-> "new", ret |-> "none", pfile |-> 0, pgen |-> 0, err |-> "none",
     outcome |-> "none", ci |-> "none", before |-> 0,
     built |-> 0, downloaded |-> 0, processed |-> 0, notices |-> <<>>]

\* Worker w is inside VectorStore.create_index.
InCreateIndex(w) == wk[w].pc \in {"ci_check", "ci_load", "ci_build", "ci_persist"}

\* Worker w is inside ETLScheduler.run_etl_job.
InEtlJob(w) ==
    \/ wk[w].pc \in {"etl_download", "etl_process", "etl_refresh", "etl_notify",
                     "etl_except"}
    \/ w \in EtlWorkers /\ wk[w].ret = "refresh" /\ InCreateIndex(w)

\* A request that has not called get_response yet.
NewQuery ==
    [pc |-> "idle", query |-> <<>>, history |-> <<>>, engine |-> 0,
     passages |-> <<>>, rag |-> "none", ragErr |-> "none",
     geminiMessages |-> <<>>,
     modelInput |-> [history |-> <<>>,
                     context |-> [kind |-> "none", text |-> "", snap |-> 0],
                     question |-> <<>>],
     retrievalCalls |-> 0, engineCalls |-> 0, modelCalls |-> 0,
     failure |-> "none", usageObs |-> 0, timingObs |-> 0,
     result |-> <<>>, etlAtStart |-> 0]

\* hour=None (schedule_etl.py line 26); also: not set yet.
NoHour == -1

\* The hours of a day (docstring of ETLScheduler.__init__, line 31).
Hours == 0..23

\* Nothing imported, constructed or scheduled yet.
NewScheduler ==
    [config |-> NoHour, arg |-> NoHour, hour |-> NoHour, job |-> <<>>, made |-> FALSE]

Init ==
    /\ index = [s \in Stores |-> 0]
    /\ ready = [s \in Stores |-> FALSE]
    /\ \E g \in {0, 1} : disk = [i \in 1..NFiles |-> g]
    /\ docs \in 0..MaxDocs
    /\ nextGen = 2
    /\ wk = [w \in Workers |-> NewWorker]
    /\ qt = [t \in QueryThreads |-> NewQuery]
    /\ stopEvent = FALSE
    /\ lastEtlGen = 0
    /\ scheduler = NewScheduler

\* ------------------------------------------- VectorStore.__init__ and load
\* The worker record after create_index returned normally to its caller.
\* how: "skipped" (line 40) or "built" (line 46); the code returns None in both.
AfterReturn(w, how) ==
    IF wk[w].ret \in {"ctor_try", "ctor_except"}
    THEN [NewWorker EXCEPT !.pc = "idle"]
    ELSE IF w = "chat"
    THEN [wk[w] EXCEPT !.pc = "returned", !.ret = "none", !.ci = how,
                       !.outcome = RefreshedMsg, !.err = "none"]
    ELSE [wk[w] EXCEPT !.pc = "etl_notify", !.ret = "none", !.ci = how]

\* The worker record after create_index raised e (logged and re-raised, lines 47-49).
AfterRaise(w, e) ==
    IF wk[w].ret = "ctor_try"
    THEN [wk[w] EXCEPT !.pc = "ci_check", !.ret = "ctor_except", !.ci = "raised"]
    ELSE IF wk[w].ret = "ctor_except"
    THEN [wk[w] EXCEPT !.pc = "crashed", !.ret = "none", !.ci = "raised", !.err = e]
    ELSE IF w = "chat"
    THEN [wk[w] EXCEPT !.pc = "returned", !.ret = "none", !.ci = "raised",
                       !.outcome = "raised", !.err = e]
    ELSE [wk[w] EXCEPT !.pc = "etl_except", !.ret = "none", !.ci = "raised", !.err = e]

\* The constructor of w's store returns when create_index returns to it.
ReadyAfter(w, rec) ==
    IF wk[w].ret \in {"ctor_try", "ctor_except"} /\ rec.pc = "idle"
    THEN [ready EXCEPT ![StoreOf(w)] = TRUE]
    ELSE ready

\* VectorStore.__init__ (lines 12-15) with load_or_create_index (lines 17-32):
\* chat constructs the Chatbot's store, main constructs the ETLScheduler's.
Construct(w) ==
    /\ w \in {"chat", "main"}
    /\ wk[w].pc = "new"
    /\ IF DirNonEmpty(disk)
       THEN \/ /\ DiskComplete(disk)
               /\ index' = [index EXCEPT ![StoreOf(w)] = disk[1]]
               /\ wk' = [wk EXCEPT ![w].pc = "idle"]
               /\ ready' = [ready EXCEPT ![StoreOf(w)] = TRUE]
            \/ \* load_index_from_storage raises: caught at line 29
               /\ wk' = [wk EXCEPT ![w].pc = "ci_check", ![w].ret = "ctor_except",
                                   ![w].before = index[StoreOf(w)]]
               /\ UNCHANGED <<index, ready>>
       ELSE /\ wk' = [wk EXCEPT ![w].pc = "ci_check", ![w].ret = "ctor_try",
                                ![w].before = index[StoreOf(w)]]
            /\ UNCHANGED <<index, ready>>
    /\ UNCHANGED <<disk, docs, nextGen, qt, stopEvent, lastEtlGen, scheduler>>

\* ------------------------------------------------ VectorStore.create_index
\* Lines 36-40: no documents, the creation is skipped.
CiCheck(w) ==
    /\ wk[w].pc = "ci_check"
    /\ LET rec == IF NoDocuments(docs)
                  THEN AfterReturn(w, "skipped")
                  ELSE [wk[w] EXCEPT !.pc = "ci_load"]
       IN /\ wk' = [wk EXCEPT ![w] = rec]
          /\ ready' = ReadyAfter(w, rec)
    /\ UNCHANGED <<index, disk, docs, nextGen, qt, stopEvent, lastEtlGen, scheduler>>

\* Line 43: SimpleDirectoryReader(PDF_PROCESSED_DIR).load_data()
CiLoad(w) ==
    /\ wk[w].pc = "ci_load"
    /\ \/ wk' = [wk EXCEPT ![w].pc = "ci_build"]
       \/ wk' = [wk EXCEPT ![w] = AfterRaise(w, "LoadError")]
    /\ UNCHANGED <<index, ready, disk, docs, nextGen, qt, stopEvent, lastEtlGen, scheduler>>

\* The value line 44 leaves in self.index when the build of snapshot g succeeds.
Publish(idx, s, g) == [idx EXCEPT ![s] = g]

\* Line 44: self.index = VectorStoreIndex.from_documents(documents)
CiBuild(w) ==
    /\ wk[w].pc = "ci_build"
    /\ \/ /\ nextGen <= MaxGen
          /\ index' = Publish(index, StoreOf(w), nextGen)
          /\ nextGen' = nextGen + 1
          /\ wk' = [wk EXCEPT ![w].pc = "ci_persist", ![w].pfile = 1, ![w].pgen = 0,
                              ![w].built = nextGen]
       \/ /\ wk' = [wk EXCEPT ![w] = AfterRaise(w, "BuildError")]
          /\ UNCHANGED <<index, nextGen>>
    /\ UNCHANGED <<ready, disk, docs, qt, stopEvent, lastEtlGen, scheduler>>

\* Lines 45, 51-55: persist_index reads self.index once and the storage context
\* writes its files into VECTOR_STORE_DIR one after the other; any write may raise.
CiPersist(w) ==
    /\ wk[w].pc = "ci_persist"
    /\ LET g == IF wk[w].pfile = 1 THEN index[StoreOf(w)] ELSE wk[w].pgen
       IN \/ /\ disk' = [disk EXCEPT ![wk[w].pfile] = g]
             /\ LET rec == IF wk[w].pfile = NFiles
                           THEN [AfterReturn(w, "built") EXCEPT !.pfile = 0, !.pgen = 0]
                           ELSE [wk[w] EXCEPT !.pfile = @ + 1, !.pgen = g]
                IN /\ wk' = [wk EXCEPT ![w] = rec]
                   /\ ready' = ReadyAfter(w, rec)
          \/ /\ wk' = [wk EXCEPT ![w] =
                         [AfterRaise(w, "IOError") EXCEPT !.pfile = 0, !.pgen = 0]]
             /\ UNCHANGED <<disk, ready>>
    /\ UNCHANGED <<index, docs, nextGen, qt, stopEvent, lastEtlGen, scheduler>>

\* The process is killed while persist_index (lines 51-55) is writing: what
\* the storage context has written so far stays in VECTOR_STORE_DIR, everything
\* in memory is gone and the next process starts at its constructors.
Crash ==
    /\ \E w \in Workers : wk[w].pc = "ci_persist"
    /\ index' = [s \in Stores |-> 0]
    /\ ready' = [s \in Stores |-> FALSE]
    /\ wk' = [w \in Workers |-> NewWorker]
    /\ qt' = [t \in QueryThreads |-> NewQuery]
    /\ stopEvent' = FALSE
    /\ UNCHANGED <<disk, docs, nextGen, lastEtlGen, scheduler>>

\* VECTOR_STORE_DIR holds files of two different snapshots.
Torn(d) == \E i, j \in 1..NFiles : d[i] # 0 /\ d[j] # 0 /\ d[i] # d[j]

\* ---------------------------------------------- Chatbot.refresh_knowledge
\* chatbot.py 98-100 -> VectorStore.refresh_index, vector_store.py 71-75.
RefreshKnowledge(w) ==
    /\ w = "chat"
    /\ wk[w].pc = "idle"
    /\ wk' = [wk EXCEPT ![w].pc = "ci_check", ![w].ret = "refresh",
                        ![w].ci = "none", ![w].outcome = "none", ![w].err = "none",
                        ![w].before = index[StoreOf(w)]]
    /\ UNCHANGED <<index, ready, disk, docs, nextGen, qt, stopEvent, lastEtlGen, scheduler>>

\* ------------------------------------------------ ETLScheduler.run_etl_job
Max(a, b) == IF a >= b THEN a ELSE b

\* The worker record at the first line of run_etl_job (line 39).
EnterJob(w) ==
    [wk[w] EXCEPT !.pc = "etl_download", !.ci = "none", !.outcome = "none",
                  !.err = "none", !.built = 0, !.downloaded = 0, !.processed = 0,
                  !.notices = <<>>]

\* Where the thread of w is between two calls.
RestPc(w) == IF w = "sched" THEN "sched_loop" ELSE "idle"

\* The caller has the value refresh_knowledge or run_etl_job returned (or the
\* exception it raised) and the call's frame is gone.
Resume(w) ==
    /\ wk[w].pc = "returned"
    /\ wk' = [wk EXCEPT ![w] = [NewWorker EXCEPT !.pc = RestPc(w)]]
    /\ UNCHANGED <<index, ready, disk, docs, nextGen, qt, stopEvent, lastEtlGen, scheduler>>

\* run_now, lines 122-125: main calls run_etl_job whatever the other threads do.
RunNow(w) ==
    /\ w = "main"
    /\ wk[w].pc = "idle"
    /\ wk' = [wk EXCEPT ![w] = EnterJob(w)]
    /\ UNCHANGED <<index, ready, disk, docs, nextGen, qt, stopEvent, lastEtlGen, scheduler>>

\* Lines 44-51: PDFDownloader().download_from_file, or no URL file.
EtlDownload(w) ==
    /\ wk[w].pc = "etl_download"
    /\ \/ \E d \in 0..MaxDocs :
            wk' = [wk EXCEPT ![w].pc = "etl_process", ![w].downloaded = d]
       \/ wk' = [wk EXCEPT ![w].pc = "etl_except", ![w].err = "FetchError"]
    /\ UNCHANGED <<index, ready, disk, docs, nextGen, qt, stopEvent, lastEtlGen, scheduler>>

\* A run that refreshes the index whatever was processed.
AfterProcessAlwaysRefresh(w, p) ==
    [wk[w] EXCEPT !.pc = "ci_check", !.ret = "refresh", !.processed = p]

\* Lines 62-65: refresh_index is called only when files were processed.
AfterProcess(w, p) ==
    IF p > 0
    THEN [wk[w] EXCEPT !.pc = "ci_check", !.ret = "refresh", !.processed = p]
    ELSE [wk[w] EXCEPT !.pc = "etl_notify", !.processed = p]

\* Lines 53-60: process_all_pdfs writes p text files into PDF_PROCESSED_DIR,
\* then generate_metadata_csv; either may raise.
EtlProcess(w) ==
    /\ wk[w].pc = "etl_process"
    /\ \/ \E p \in 0..MaxDocs :
            /\ docs' = Max(docs, p)
            /\ \/ wk' = [wk EXCEPT ![w] = AfterProcess(w, p)]
               \/ /\ p > 0
                  /\ wk' = [wk EXCEPT ![w].pc = "etl_except", ![w].processed = p,
                                      ![w].err = "MetadataError"]
       \/ /\ wk' = [wk EXCEPT ![w].pc = "etl_except", ![w].err = "ProcessError"]
          /\ UNCHANGED docs
    /\ UNCHANGED <<index, ready, disk, nextGen, qt, stopEvent, lastEtlGen, scheduler>>

\* ------------------------------------------------- monitor/alerts.py
\* AlertManager.send_alert, alerts.py 16-67: the embed that is posted. sent is
\* what the call returns: False without a webhook URL or when the post fails
\* (a RequestException is caught and logged, lines 65-67), True otherwise.
SendAlert(title, message, level, fields, sent) ==
    [title |-> title, message |-> message, level |-> level, fields |-> fields,
     sent |-> sent]

\* An error alert sent one level too low.
SendErrorAlertAsWarning(error_type, error_message, sent) ==
    SendAlert("System Error: " \o error_type, error_message, "warning",
              [downloaded |-> 0, processed |-> 0], sent)

\* AlertManager.send_error_alert, alerts.py 90-104.
SendErrorAlert(error_type, error_message, sent) ==
    SendAlert("System Error: " \o error_type, error_message, "error",
              [downloaded |-> 0, processed |-> 0], sent)

\* ------------------------------------- run_etl_job: the end of a run
\* Lines 67-81: alerts.send_alert(level="info") and return True.
EtlNotify(w) ==
    /\ wk[w].pc = "etl_notify"
    /\ \E sent \in BOOLEAN :
         wk' = [wk EXCEPT ![w].pc = "returned", ![w].outcome = "True",
                          ![w].notices =
                              Append(@, SendAlert("ETL Job Completed",
                                                  "completed successfully", "info",
                                                  [downloaded |-> wk[w].downloaded,
                                                   processed |-> wk[w].processed],
                                                  sent))]
    /\ lastEtlGen' = IF wk[w].ci = "built" THEN wk[w].built ELSE lastEtlGen
    /\ UNCHANGED <<index, ready, disk, docs, nextGen, qt, stopEvent, scheduler>>

\* A handler that catches the download's errors only.
JobCaughtFetchOnly(e) == e = "FetchError"

\* Line 83: except Exception catches whatever lines 38-81 raise.
JobCaught(e) == TRUE

\* A handler that starts the pipeline again after the alert.
EtlExceptRetry(w) ==
    /\ wk[w].pc = "etl_except"
    /\ \E sent \in BOOLEAN :
         wk' = [wk EXCEPT ![w].pc = "etl_download",
                          ![w].notices =
                              Append(@, SendErrorAlert("ETL Job Failure",
                                                       wk[w].err, sent))]
    /\ UNCHANGED <<index, ready, disk, docs, nextGen, qt, stopEvent, lastEtlGen, scheduler>>

\* Lines 83-93: the exception is logged, alerts.send_error_alert is called with
\* its text and False is returned. (An exception the handler did not catch
\* would end the thread: pc "job_raised".)
EtlExcept(w) ==
    /\ wk[w].pc = "etl_except"
    /\ IF JobCaught(wk[w].err)
       THEN \E sent \in BOOLEAN :
              wk' = [wk EXCEPT ![w].pc = "returned", ![w].outcome = "False",
                               ![w].notices =
                                   Append(@, SendErrorAlert("ETL Job Failure",
                                                            wk[w].err, sent))]
       ELSE wk' = [wk EXCEPT ![w].pc = "job_raised", ![w].outcome = "raised"]
    /\ UNCHANGED <<index, ready, disk, docs, nextGen, qt, stopEvent, lastEtlGen, scheduler>>

\* ------------------------------------------------- the background scheduler
\* start, lines 109-115: main starts the thread that runs start_scheduler.
Start(w) ==
    /\ w = "main"
    /\ wk[w].pc = "idle"
    /\ wk["sched"].pc = "new"
    /\ wk' = [wk EXCEPT !["sched"].pc = "sched_loop"]
    /\ UNCHANGED <<index, ready, disk, docs, nextGen, qt, stopEvent, lastEtlGen, scheduler>>

\* stop, lines 117-120.
Stop(w) ==
    /\ w = "main"
    /\ wk[w].pc = "idle"
    /\ wk["sched"].pc # "new"
    /\ ~stopEvent
    /\ stopEvent' = TRUE
    /\ UNCHANGED <<index, ready, disk, docs, nextGen, wk, qt, lastEtlGen, scheduler>>

\* A loop that never looks at the stop event.
SchedulerTurnIgnoresStop(w) ==
    /\ w = "sched"
    /\ wk[w].pc = "sched_loop"
    /\ wk' = [wk EXCEPT ![w] = EnterJob(w)]
    /\ UNCHANGED <<index, ready, disk, docs, nextGen, qt, stopEvent, lastEtlGen, scheduler>>

\* start_scheduler, lines 103-107: one turn of the loop. The daily job is
\* pending (run_pending calls run_etl_job) or it is not (sleep and look again).
SchedulerTurn(w) ==
    /\ w = "sched"
    /\ wk[w].pc = "sched_loop"
    /\ IF stopEvent
       THEN wk' = [wk EXCEPT ![w].pc = "stopped"]
       ELSE wk' = [wk EXCEPT ![w] = EnterJob(w)]
    /\ UNCHANGED <<index, ready, disk, docs, nextGen, qt, stopEvent, lastEtlGen, scheduler>>

\* -------------------------------------------------- the hour of the job
\* config.py line 28: ETL_SCHEDULE_HOUR = int(os.getenv("ETL_SCHEDULE_HOUR", "2"))
LoadConfig(c) ==
    /\ scheduler.config = NoHour
    /\ scheduler' = [scheduler EXCEPT !.config = c]
    /\ UNCHANGED <<index, ready, disk, docs, nextGen, wk, qt, stopEvent, lastEtlGen>>

\* Python's "a or b": b when a is None or 0, else a.
Or(a, b) == IF a = NoHour \/ a = 0 THEN b ELSE a

\* schedule_etl.py line 33: self.hour = hour or ETL_SCHEDULE_HOUR
SchedulerInit(h) ==
    /\ scheduler.config # NoHour
    /\ ~scheduler.made
    /\ scheduler' = [scheduler EXCEPT !.arg = h, !.made = TRUE,
                                      !.hour = Or(h, scheduler.config)]
    /\ UNCHANGED <<index, ready, disk, docs, nextGen, wk, qt, stopEvent, lastEtlGen>>

\* f"{hour:02d}:00": two decimal digits of the hour, then the minutes 00.
At(hour) == <<hour \div 10, hour % 10, 0, 0>>

\* The hour that a time of day "HH:MM" names.
HourOf(at) == at[1] * 10 + at[2]

\* start_scheduler, line 100: schedule.every().day.at(...).do(self.run_etl_job)
ScheduleDaily ==
    /\ scheduler.made
    /\ scheduler.job = <<>>
    /\ scheduler' = [scheduler EXCEPT !.job = At(scheduler.hour)]
    /\ UNCHANGED <<index, ready, disk, docs, nextGen, wk, qt, stopEvent, lastEtlGen>>

\* ------------------------------------------------------ the request inputs
Roles == {"user", "assistant", "system"}

\* A history of n messages; the content of a message is its position, so that
\* every message of a history is distinct.
HistoriesOfLen(n) ==
    {[i \in 1..n |-> [role |-> r[i], content |-> i]] : r \in [1..n -> Roles]}

Histories(maxLen) == UNION {HistoriesOfLen(n) : n \in 0..maxLen}

\* The role that stands for a history element that is no dict (a string, None):
\* message.get raises AttributeError on it.
NotADict == "<not a dict>"

\* Histories of user messages whose first element is no dict.
MalformedHistories ==
    {[i \in 1..n |-> [role |-> IF i = 1 THEN NotADict ELSE "user", content |-> i]] :
        n \in 1..MaxHist}

Chars == {" ", "x"}

QueryTexts(maxLen) == UNION {[1..n -> Chars] : n \in 0..maxLen}

\* ------------------------------------------------------ VectorStore.query
\* A retrieval that looked up self.index again for every passage.
PassageSourceCurrent(t) == index["chatbot"]

\* The snapshot the query engine of request t reads a passage from: the engine
\* made at line 64 keeps the index object it was made from.
PassageSource(t) == qt[t].engine

\* Chatbot.get_response is entered (lines 28-35).
StartAnswer(t, Qs, Hs) ==
    /\ qt[t].pc = "idle"
    /\ ready["chatbot"]
    /\ \E q \in Qs, h \in Hs :
         qt' = [qt EXCEPT ![t] = [NewQuery EXCEPT !.pc = "q_check", !.query = q,
                                                  !.history = h,
                                                  !.etlAtStart = lastEtlGen]]
    /\ UNCHANGED <<index, ready, disk, docs, nextGen, wk, stopEvent, lastEtlGen, scheduler>>

\* The result of get_response has been handed to the caller.
Finish(t) ==
    /\ qt[t].pc = "done"
    /\ qt' = [qt EXCEPT ![t] = NewQuery]
    /\ UNCHANGED <<index, ready, disk, docs, nextGen, wk, stopEvent, lastEtlGen, scheduler>>

\* chatbot.py line 39 calls VectorStore.query; vector_store.py lines 59-61:
\* without an index the apology string is returned as the context.
QCheck(t) ==
    /\ qt[t].pc = "q_check"
    /\ IF index["chatbot"] = 0
       THEN qt' = [qt EXCEPT ![t].pc = "q_send", ![t].rag = "unavailable",
                             ![t].retrievalCalls = @ + 1]
       ELSE qt' = [qt EXCEPT ![t].pc = "q_engine", ![t].retrievalCalls = @ + 1]
    /\ UNCHANGED <<index, ready, disk, docs, nextGen, wk, stopEvent, lastEtlGen, scheduler>>

\* Line 64: self.index is read again and the engine is made from that object.
QEngine(t) ==
    /\ qt[t].pc = "q_engine"
    /\ qt' = [qt EXCEPT ![t].pc = "q_retrieve", ![t].engine = index["chatbot"]]
    /\ UNCHANGED <<index, ready, disk, docs, nextGen, wk, stopEvent, lastEtlGen, scheduler>>

\* Lines 65-69: the engine reads its passages one by one, or raises; the
\* exception is turned into a string and returned as the context.
QRetrieve(t) ==
    /\ qt[t].pc = "q_retrieve"
    /\ \/ LET ps == Append(qt[t].passages, PassageSource(t))
          IN qt' = [qt EXCEPT ![t].passages = ps,
                              ![t].engineCalls = 1,
                              ![t].pc = IF Len(ps) = MaxPassages
                                        THEN "q_send" ELSE "q_retrieve",
                              ![t].rag = IF Len(ps) = MaxPassages
                                         THEN "response" ELSE "none"]
       \/ qt' = [qt EXCEPT ![t].pc = "q_send", ![t].rag = "error",
                           ![t].engineCalls = 1,
                           ![t].ragErr = "RetrieveError"]
    /\ UNCHANGED <<index, ready, disk, docs, nextGen, wk, stopEvent, lastEtlGen, scheduler>>

\* ---------------------------------------------------- Chatbot.get_response
\* conversation_history[-5:]
LastMessages(h, n) == IF Len(h) <= n THEN h ELSE SubSeq(h, Len(h) - n + 1, Len(h))

\* Lines 59-62: a user message stays user, an assistant message becomes model,
\* any other message is left out.
RECURSIVE ToGemini(_)
ToGemini(h) ==
    IF h = <<>> THEN <<>>
    ELSE LET m == Head(h)
         IN IF m.role = "user"
            THEN <<[role |-> "user", parts |-> m.content]>> \o ToGemini(Tail(h))
            ELSE IF m.role = "assistant"
            THEN <<[role |-> "model", parts |-> m.content]>> \o ToGemini(Tail(h))
            ELSE ToGemini(Tail(h))

\* A list that drops the unrecognized roles first and then keeps the last 5.
GeminiMessagesFilterFirst(h) == LastMessages(ToGemini(h), HistoryWindow)

\* Lines 52-62: the list get_response builds from the history.
GeminiMessages(h) == ToGemini(LastMessages(h, HistoryWindow))

\* Line 40: context_str = str(rag_context), whatever query returned.
ContextStr(q) ==
    IF q.rag = "unavailable" THEN [kind |-> "text", text |-> UnavailableMsg, snap |-> 0]
    ELSE IF q.rag = "error"
    THEN [kind |-> "text", text |-> QueryErrorMsg \o q.ragErr, snap |-> 0]
    ELSE [kind |-> "passages", text |-> "", snap |-> q.engine]

\* Lines 50, 65, 68: what the model is given. The chat is started with
\* history=[] and only the prompt is sent; gemini_messages is not passed on.
ModelInput(q) ==
    [history |-> <<>>, context |-> ContextStr(q), question |-> q.query]

\* Lines 82-88: the result of a call whose model call succeeded.
SuccessResult(q) ==
    [answer |-> "response.text",
     sources |-> IF q.rag = "response" THEN "formatted_sources" ELSE "",
     error |-> "none", response_time |-> TRUE, raised |-> FALSE]

\* Lines 90-96: the result of a call in which something raised e.
FailureResult(e) ==
    [answer |-> FallbackMsg, sources |-> "absent", error |-> e,
     response_time |-> TRUE, raised |-> FALSE]

\* What the caller gets when e leaves get_response as an exception.
Propagated(e) ==
    [answer |-> "absent", sources |-> "absent", error |-> e,
     response_time |-> FALSE, raised |-> TRUE]

\* A handler that lets everything but the model's own errors through.
CaughtModelOnly(e) == e = "ModelError"

\* Line 90: except Exception catches whatever the try block (lines 37-88) raises.
Caught(e) == TRUE

\* Lines 53-57: message.get is called on each of the last 5 elements.
HistoryRaises(h) ==
    \E i \in 1..Len(LastMessages(h, HistoryWindow)) :
        LastMessages(h, HistoryWindow)[i].role = NotADict

\* What can go wrong in lines 44-88 for history h: the history loop raises on
\* an element that is no dict; otherwise send_message (line 68), then
\* TOKEN_USAGE.observe (line 73), then response.text and the sources
\* (lines 76-86) may raise.
Failures(h) ==
    IF HistoryRaises(h) THEN {"AttributeError"}
    ELSE {"none", "ModelError", "ObserveError", "ResponseError"}

\* The result of get_response when f went wrong ("none": nothing did).
ResultOf(q, f) ==
    IF f = "none" THEN SuccessResult(q)
    ELSE IF Caught(f) THEN FailureResult(f)
    ELSE Propagated(f)

\* Lines 40-96: the prompt is assembled and sent to the model, the usage is
\* observed and the result is built; the decorator of line 28 observes the
\* time whatever happens.
QSend(t) ==
    /\ qt[t].pc = "q_send"
    /\ \E f \in Failures(qt[t].history) :
         LET sent == f # "AttributeError"
         IN qt' = [qt EXCEPT
                ![t].pc = "done",
                ![t].failure = f,
                ![t].geminiMessages =
                    IF sent THEN GeminiMessages(qt[t].history) ELSE <<>>,
                ![t].modelInput = IF sent THEN ModelInput(qt[t]) ELSE @,
                ![t].modelCalls = IF sent THEN @ + 1 ELSE @,
                ![t].usageObs = IF f \in {"none", "ResponseError"} THEN @ + 1 ELSE @,
                ![t].timingObs = @ + 1,
                ![t].result = ResultOf(qt[t], f)]
    /\ UNCHANGED <<index, ready, disk, docs, nextGen, wk, stopEvent, lastEtlGen, scheduler>>

\* ---------------------------------------------------------- specifications
\* Inputs of the requests that run beside the rebuilds.
ServeQueries == {<<"x">>}
ServeHistories == {<<>>}

\* A step of VectorStore.create_index by the thread of w.
RebuildStep(w) ==
    \/ CiCheck(w)
    \/ CiLoad(w)
    \/ CiBuild(w)
    \/ CiPersist(w)

\* A step of the thread that owns the Chatbot.
ChatStep ==
    \/ Construct("chat")
    \/ RefreshKnowledge("chat")
    \/ RebuildStep("chat")
    \/ Resume("chat")

\* A step of a thread that uses the ETLScheduler.
EtlStep(w) ==
    \/ Construct(w)
    \/ RunNow(w)
    \/ Start(w)
    \/ Stop(w)
    \/ SchedulerTurn(w)
    \/ EtlDownload(w)
    \/ EtlProcess(w)
    \/ EtlNotify(w)
    \/ EtlExcept(w)
    \/ RebuildStep(w)
    \/ Resume(w)

\* A step of request t, its inputs drawn from Qs and Hs.
QueryStep(t, Qs, Hs) ==
    \/ StartAnswer(t, Qs, Hs)
    \/ QCheck(t)
    \/ QEngine(t)
    \/ QRetrieve(t)
    \/ QSend(t)
    \/ Finish(t)

\* The chatbot process: concurrent requests beside refresh_knowledge.
Next ==
    \/ ChatStep
    \/ \E t \in QueryThreads : QueryStep(t, ServeQueries, ServeHistories)

Spec == Init /\ [][Next]_vars

\* The ETL process: run_now beside the background scheduler.
NextEtl == \E w \in EtlWorkers : EtlStep(w)

SpecEtl == Init /\ [][NextEtl]_vars

\* The chatbot process, killed during a persist and started again.
NextRestart ==
    \/ ChatStep
    \/ Crash

SpecRestart == Init /\ [][NextRestart]_vars

\* The hour of the daily job: the configuration is read, an ETLScheduler is
\* made with an hour or with none, and start_scheduler registers the job.
NextHour ==
    \/ \E c \in Hours : LoadConfig(c)
    \/ \E h \in Hours \cup {NoHour} : SchedulerInit(h)
    \/ ScheduleDaily

SpecHour == Init /\ [][NextHour]_vars

\* The service that only schedules: main constructs the ETLScheduler, starts
\* its thread and stops it; every run is one of the scheduler's thread.
SchedStep(w) ==
    \/ SchedulerTurn(w)
    \/ EtlDownload(w)
    \/ EtlProcess(w)
    \/ EtlNotify(w)
    \/ EtlExcept(w)
    \/ RebuildStep(w)
    \/ Resume(w)

NextSched ==
    \/ Construct("main")
    \/ RebuildStep("main")
    \/ Start("main")
    \/ Stop("main")
    \/ SchedStep("sched")

\* The scheduler's thread is a thread of its own (start, line 111): it keeps
\* taking steps while it has one to take.
SpecSched == Init /\ [][NextSched]_vars /\ WF_vars(SchedStep("sched"))

\* The chatbot (a request and refresh_knowledge) beside the runs that main
\* starts with run_now, over the same directories.
NextIngest ==
    \/ ChatStep
    \/ Construct("main")
    \/ RunNow("main")
    \/ EtlDownload("main")
    \/ EtlProcess("main")
    \/ RebuildStep("main")
    \/ EtlNotify("main")
    \/ EtlExcept("main")
    \/ Resume("main")
    \/ QueryStep(1, ServeQueries, ServeHistories)

SpecIngest == Init /\ [][NextIngest]_vars

\* One request at a time: every query text without a history, and every
\* history with one query text.
NextAnswer ==
    \/ Construct("chat")
    \/ RebuildStep("chat")
    \/ QueryStep(1, QueryTexts(MaxQueryLen), ServeHistories)
    \/ QueryStep(1, ServeQueries, Histories(MaxHist) \cup MalformedHistories)

SpecAnswer == Init /\ [][NextAnswer]_vars

\* ------------------------------------------------------------------ claims
\* Request t has made its query engine (vector_store.py line 64).
Bound(t) == qt[t].pc = "q_retrieve" \/ qt[t].rag = "response"

\* C1: every passage a request retrieves comes from the one snapshot its query
\* engine was made from, a snapshot that was published at some time, whatever
\* refresh_knowledge publishes while the retrieval runs.
C1_SingleSnapshotPerRetrieval ==
    \A t \in QueryThreads :
        /\ \A i \in 1..Len(qt[t].passages) : qt[t].passages[i] = qt[t].engine
        /\ Bound(t) => qt[t].engine \in 1..(nextGen - 1)

\* C1 witness: a request is between two passages and a rebuild has published a
\* newer snapshot than the one its engine holds.
C1_Witness ==
    \E t \in QueryThreads :
        /\ qt[t].pc = "q_retrieve"
        /\ Len(qt[t].passages) = 1
        /\ index["chatbot"] # qt[t].engine

\* C2: a request that starts after a run of run_etl_job has rebuilt the index and
\* returned True retrieves against that snapshot (or a later one).
C2_QueriesUseIngestedSnapshot ==
    \A t \in QueryThreads :
        (qt[t].etlAtStart # 0 /\ qt[t].pc \in {"q_retrieve", "q_send", "done"})
            => (qt[t].rag # "unavailable" /\ qt[t].engine >= qt[t].etlAtStart)

\* C3: when refresh_knowledge raises, the index of the store is the one that was
\* current when the rebuild began.
C3_FailedRebuildLeavesSnapshot ==
    \A w \in Workers :
        (wk[w].pc = "returned" /\ wk[w].outcome = "raised")
            => index[StoreOf(w)] = wk[w].before

\* C4: a refresh that finds no documents leaves the index as it was and returns
\* an outcome that is neither the success outcome nor an error.
C4_SkippedIsDistinctOutcome ==
    \A w \in Workers :
        (wk[w].pc = "returned" /\ wk[w].ci = "skipped")
            => /\ index[StoreOf(w)] = wk[w].before
               /\ wk[w].outcome \notin {RefreshedMsg, "raised"}

\* C5: run_etl_job is never executed by two threads at once (the second call is
\* turned away as busy).
C5_SecondRunRejected ==
    \A v, w \in EtlWorkers : (InEtlJob(v) /\ InEtlJob(w)) => v = w

\* Worker w is inside a rebuild started by refresh_index.
Rebuilding(w) == InCreateIndex(w) /\ wk[w].ret = "refresh"

\* C6: at most one rebuild (refresh_knowledge, run_now, the scheduled job) is in
\* progress at any time.
C6_RebuildsSerialized ==
    \A v, w \in Workers : (Rebuilding(v) /\ Rebuilding(w)) => v = w

\* An empty or whitespace-only query text.
IsBlank(q) == \A i \in 1..Len(q) : q[i] = " "

\* C7: a request with a blank query calls neither VectorStore.query nor the
\* model, and its result is the InvalidInput outcome.
C7_BlankQueryRejected ==
    \A t \in QueryThreads :
        (qt[t].pc # "idle" /\ IsBlank(qt[t].query))
            => /\ qt[t].retrievalCalls = 0
               /\ qt[t].modelCalls = 0
               /\ qt[t].pc = "done" => qt[t].result.error = "InvalidInput"

\* C8: without an index the result is the fixed degraded-mode answer with no
\* error, whatever the model call does.
C8_UnavailableAnswer ==
    \A t \in QueryThreads :
        (qt[t].pc = "done" /\ qt[t].rag = "unavailable")
            => /\ qt[t].result.answer = UnavailableMsg
               /\ qt[t].result.error = "none"

\* C9: when the query engine raises, the result carries the error detail and
\* the failure is not handed to the model as context.
C9_RetrievalFailureReported ==
    \A t \in QueryThreads :
        (qt[t].pc = "done" /\ qt[t].rag = "error")
            => /\ qt[t].result.error = qt[t].ragErr
               /\ qt[t].modelInput.context.kind # "text"

\* The contents of the messages of a list, in order.
Contents(ms) == [i \in 1..Len(ms) |-> ms[i].content]

\* C10: the model is given the last 5 messages of the history, in order, or all
\* of them when there are at most 5.
C10_ModelGetsLastFive ==
    \A t \in QueryThreads :
        (qt[t].pc = "done" /\ qt[t].modelCalls > 0)
            => Contents(qt[t].modelInput.history)
                 = Contents(LastMessages(qt[t].history, HistoryWindow))

\* C11: get_response never raises; its result always has an answer and the
\* elapsed time; a failed model call gives the fallback answer with the error;
\* a call in which nothing failed gives the answer, the formatted sources (""
\* when the context has none) and no error.
C11_AlwaysAResult ==
    \A t \in QueryThreads :
        qt[t].pc = "done" =>
            LET r == qt[t].result
            IN /\ ~r.raised
               /\ r.response_time
               /\ r.answer \in {"response.text", FallbackMsg}
               /\ qt[t].failure = "ModelError"
                    => (r.answer = FallbackMsg /\ r.error = "ModelError")
               /\ qt[t].failure = "none"
                    => /\ r.answer = "response.text"
                       /\ r.error = "none"
                       /\ r.sources = IF qt[t].rag = "response"
                                      THEN "formatted_sources" ELSE ""

\* C11 witness: a call whose history loop raised has returned the fallback.
C11_Witness ==
    \E t \in QueryThreads :
        /\ qt[t].pc = "done"
        /\ qt[t].failure = "AttributeError"
        /\ qt[t].result.answer = FallbackMsg

\* C12: refresh_knowledge never raises: it returns a value that tells success
\* from failure.
C12_RefreshNeverRaises ==
    (wk["chat"].pc = "returned") => (wk["chat"].outcome # "raised")

\* C13: the construction of a VectorStore always completes: no failure of
\* loading or creating the index leaves the constructor as an exception.
C13_InitCompletes == \A w \in Workers : wk[w].pc # "crashed"

C15_OneNoticePerRun ==
    \A w \in EtlWorkers :
        wk[w].pc = "returned" =>
            /\ Len(wk[w].notices) = 1
            /\ wk[w].outcome = "True"
                 => /\ wk[w].notices[1].level = "info"
                    /\ wk[w].notices[1].fields =
                         [downloaded |-> wk[w].downloaded,
                          processed |-> wk[w].processed]
            /\ wk[w].outcome = "False" => wk[w].notices[1].level = "error"
            /\ wk[w].outcome \in {"True", "False"}

\* C15 witness: a run whose rebuild failed while its store held a snapshot has
\* returned False.
C15_Witness ==
    \E w \in EtlWorkers :
        /\ wk[w].pc = "returned"
        /\ wk[w].outcome = "False"
        /\ wk[w].ci = "raised"
        /\ wk[w].built = 0
        /\ index["etl"] # 0

\* C16: a trigger runs the pipeline once: a run starts only from rest, a failed
\* run goes from its handler to its return with False and from there to rest,
\* never back into the pipeline, and at rest the next trigger can start a run.
C16_OneRunPerTrigger ==
    /\ [](wk["main"].pc = "idle" => ENABLED RunNow("main"))
    /\ []((wk["sched"].pc = "sched_loop" /\ ~stopEvent) => ENABLED SchedulerTurn("sched"))
    /\ [][\A w \in EtlWorkers :
            /\ (wk[w].pc = "etl_except" /\ wk'[w] # wk[w])
                  => (wk'[w].pc = "returned" /\ wk'[w].outcome = "False")
            /\ (wk[w].pc = "returned" /\ wk'[w] # wk[w]) => wk'[w].pc = RestPc(w)
            /\ (wk'[w].pc = "etl_download" /\ wk[w].pc # "etl_download")
                  => wk[w].pc = RestPc(w)]_vars

\* C16 witness: the manual trigger's run has failed in its download and returned.
C16_Witness ==
    /\ wk["main"].pc = "returned"
    /\ wk["main"].err = "FetchError"
    /\ wk["main"].outcome = "False"
    /\ Len(wk["main"].notices) = 1

\* C17: once stop() has set the event the scheduler's loop ends; a loop that
\* sees the event set starts no run; the thread that has ended does nothing
\* more; setting the event changes nothing of a run in progress.
C17_StopEndsLoop ==
    /\ (stopEvent /\ wk["sched"].pc # "new") ~> (wk["sched"].pc = "stopped")
    /\ [][/\ wk["sched"].pc = "stopped" => wk'["sched"] = wk["sched"]
          /\ (stopEvent /\ wk["sched"].pc = "sched_loop" /\ wk'["sched"] # wk["sched"])
                => wk'["sched"].pc = "stopped"
          /\ (stopEvent' /\ ~stopEvent) => wk' = wk]_vars

\* C17 witness: the loop has ended after the stop, the index of a run of its
\* thread published.
C17_Witness ==
    /\ stopEvent
    /\ wk["sched"].pc = "stopped"
    /\ index["etl"] # 0

\* C18: a rebuild whose persist failed has still published its index and is
\* reported as a success (in degraded mode), not as a failure.
C18_PersistFailureNotAFailure ==
    (wk["chat"].pc = "returned" /\ wk["chat"].err = "IOError")
        => /\ index["chatbot"] = wk["chat"].built
           /\ wk["chat"].outcome = RefreshedMsg

\* C19: a process that starts after a crash during a persist finds the files
\* of one snapshot in VECTOR_STORE_DIR, never a mix of an old and a new one.
C19_RestartFindsOneSnapshot ==
    (wk["chat"].pc = "new") => ~Torn(disk)

\* C20: a refresh that failed or was skipped has left the current index of the
\* chatbot's store the one it was when the refresh began.
C20_CurrentKeptByFailedOrSkipped ==
    (wk["chat"].pc = "returned" /\ wk["chat"].ci \in {"raised", "skipped"})
        => index["chatbot"] = wk["chat"].before

\* C21: every call of get_response that has ended, with the model's answer or
\* with the fallback, has emitted one timing observation and one usage
\* observation.
C21_OneObservationEach ==
    \A t \in QueryThreads :
        qt[t].pc = "done" => (qt[t].timingObs = 1 /\ qt[t].usageObs = 1)

\* C22: when the model call succeeded and TOKEN_USAGE.observe then failed, the
\* caller gets the result of a call in which nothing failed: the model's
\* answer and no error.
C22_ObserveFailureKeepsResult ==
    \A t \in QueryThreads :
        (qt[t].pc = "done" /\ qt[t].failure = "ObserveError")
            => qt[t].result = SuccessResult(qt[t])

\* The number of elements of h that the list is built from.
Kept(h) == IF Len(h) <= HistoryWindow THEN Len(h) ELSE HistoryWindow

\* Element i of the last Kept(h) elements of h.
Recent(h, i) == h[Len(h) - Kept(h) + i]

\* The positions among the last Kept(h) whose role is user or assistant.
Recognized(h) == {i \in 1..Kept(h) : Recent(h, i).role \in {"user", "assistant"}}

\* C25: the list built from the history has one message for each of the last 5
\* history messages whose role is user or assistant, in their order, user kept
\* as user and assistant turned into model; it has at most 5 messages.
C25_ListIsMappedLastFive ==
    \A t \in QueryThreads :
        (qt[t].pc = "done" /\ qt[t].failure # "AttributeError") =>
            LET h == qt[t].history
                g == qt[t].geminiMessages
            IN /\ Len(g) = Cardinality(Recognized(h))
               /\ Len(g) <= HistoryWindow
               /\ \A i \in Recognized(h) :
                    LET k == Cardinality({j \in Recognized(h) : j <= i})
                    IN /\ g[k].parts = Recent(h, i).content
                       /\ g[k].role = IF Recent(h, i).role = "user"
                                      THEN "user" ELSE "model"

\* C25 witness: a history of more than 5 messages that begins with a user
\* message and has an unrecognized role among its last 5 gives fewer than 5.
C25_Witness ==
    \E t \in QueryThreads :
        /\ qt[t].pc = "done"
        /\ qt[t].failure = "none"
        /\ Len(qt[t].history) > HistoryWindow
        /\ qt[t].history[1].role = "user"
        /\ Recognized(qt[t].history) # 1..HistoryWindow
        /\ Len(qt[t].geminiMessages) < HistoryWindow
        /\ Len(qt[t].geminiMessages) > 0

\* Worker w is in run_etl_job outside the rebuild.
InPipeline(w) == wk[w].pc \in {"etl_download", "etl_process", "etl_notify", "etl_except"}

\* C26 as claimed: a run that has returned has called refresh_index exactly
\* when its processing step returned at least one file.
C26_RebuildIffProcessed ==
    \A w \in EtlWorkers :
        wk[w].pc = "returned" => (wk[w].ci # "none" <=> wk[w].processed > 0)

\* C26 as amended: a run has called refresh_index exactly when its processing
\* step returned at least one file and the metadata was written; a run with no
\* processed file returns True after an info notice; the steps of a run
\* outside the rebuild change neither an index nor the persisted files.
C26_RebuildIffProcessedAndMetadata ==
    /\ [](\A w \in EtlWorkers :
            wk[w].pc = "returned" =>
                /\ wk[w].ci # "none"
                     <=> (wk[w].processed > 0 /\ wk[w].err # "MetadataError")
                /\ (wk[w].processed = 0 /\ wk[w].err = "none")
                     => /\ wk[w].outcome = "True"
                        /\ Len(wk[w].notices) = 1
                        /\ wk[w].notices[1].level = "info")
    /\ [][\A w \in EtlWorkers :
            (InPipeline(w) /\ wk'[w] # wk[w]) => (index' = index /\ disk' = disk)]_vars

\* C26 witness: a run without a processed file has returned True while its
\* store holds an index.
C26_Witness ==
    /\ wk["sched"].pc = "returned"
    /\ wk["sched"].processed = 0
    /\ wk["sched"].ci = "none"
    /\ wk["sched"].outcome = "True"
    /\ index["etl"] # 0

\* C23: the index a rebuild has built is not visible to requests while its
\* persist is still running: no request has made its query engine from the
\* snapshot that refresh_knowledge is writing to VECTOR_STORE_DIR.
C23_VisibleOnlyAfterPersist ==
    \A t \in QueryThreads :
        (Bound(t) /\ wk["chat"].pc = "ci_persist")
            => qt[t].engine # wk["chat"].built

\* C24: the daily job of an ETLScheduler made with hour h in 0..23 is scheduled
\* at h:00; the job of one made with no hour is scheduled at ETL_SCHEDULE_HOUR.
C24_ScheduledAtGivenHour ==
    scheduler.job # <<>> =>
        /\ scheduler.job[3] = 0 /\ scheduler.job[4] = 0
        /\ HourOf(scheduler.job) =
             IF scheduler.arg \in Hours THEN scheduler.arg ELSE scheduler.config

====
